---- MODULE Spec2Model ----
(***************************************************************************)
(* Model of http3.RoundTripper (src/http3/roundtrip.go): the per-host      *)
(* client map, the Alt-Svc cache, the two connection discovery strategies  *)
(* (Alt-Svc and Happy Eyeballs) and Close.                                 *)
(***************************************************************************)
EXTENDS Integers, Sequences, FiniteSets, TLC

\* ---------------------------------------------------------------- bounds
MaxTime == 2            \* the clock runs over 0..MaxTime (seconds)
MaxHandles == 2         \* newClient returns at most this many handles
MaxFactoryCalls == 2    \* fcalls counts the calls of newClient up to this number
MaxRequests == 2        \* requests issued in one run
MaxBatch == 2           \* longest list of services one Alt-Svc header yields

Hosts == {"a", "b"}     \* authorities requests are sent to
Calls == {"c1", "c2"}   \* concurrent callers of RoundTripOpt
Subs == {"quic", "tcp"} \* the two subroutines of a Happy Eyeballs call

\* ---------------------------------------------------------------- values
Nil == "nil"
Free == "free"
Closer == "closer"
NoHandle == 0
ZeroTime == 0 - 1       \* time.Time{}: before every reading of the clock
NotAdvertised == 0 - 1  \* no "h3" record advertised

ConnectionDiscoveryAltSvc == "AltSvc"
ConnectionDiscoveryHappyEyeballs == "HappyEyeballs"

ErrNoCachedConn == "ErrNoCachedConn"
NewClientErr == "newClientErr"
ParseErr == "parseErr"
CloseErr == "closeErr"

subTrip(res, err) == [res |-> res, err |-> err]
NoTrip == subTrip(Nil, Nil)

\* What cl.RoundTrip and tcpClient.Do can return.  http.Client.Do returns a
\* nil response on error, except when CheckRedirect fails (response and error).
QuicOutcomes == {subTrip("quicRes", Nil), subTrip(Nil, "quicErr")}
TcpOutcomes == {subTrip("tcpRes", Nil), subTrip("tcpRes", "tcpErr"), subTrip(Nil, "tcpErr")}
Outcomes(g) == IF g = "quic" THEN QuicOutcomes ELSE TcpOutcomes

\* altsvc.Service.  ProtocolID is a sequence of characters.
Service(id, maxAge, persist, clear) ==
    [ProtocolID |-> id, MaxAge |-> maxAge, Persist |-> persist, Clear |-> clear]
H3 == <<"h", "3">>
H3_29 == <<"h", "3", "-", "2", "9">>
H2 == <<"h", "2">>
Services == { Service(H3, 1, 0, FALSE),
              Service(H3_29, 0, 0, FALSE),
              Service(H2, 0, 1, FALSE),
              Service(<<>>, 0, 0, TRUE) }
Batches == UNION { [1..n -> Services] : n \in 0..MaxBatch }

\* altsvc.Parse(hdr): a list of services, or an error and no list.
ParseOutcomes == { [svcs |-> b, err |-> Nil] : b \in Batches }
                     \cup { [svcs |-> <<>>, err |-> ParseErr] }

\* type altSvc: a Service and expiredAt.
altSvc(s, expiredAt) ==
    [ProtocolID |-> s.ProtocolID, MaxAge |-> s.MaxAge, Persist |-> s.Persist,
     Clear |-> s.Clear, expiredAt |-> expiredAt]
ZeroAltSvc == altSvc(Service(<<>>, 0, 0, FALSE), ZeroTime)

EmptyMap == [h \in {} |-> NoHandle]

\* strings.HasPrefix
HasPrefix(s, prefix) ==
    /\ Len(s) >= Len(prefix)
    /\ SubSeq(s, 1, Len(prefix)) = prefix

\* make([]altSvc, n): n zero values
MakeAltSvcs(n) == [i \in 1..n |-> ZeroAltSvc]

\* setAltServices, lines 261-263: a record that is not persistent expires
\* MaxAge seconds after t; a persistent one keeps the zero expiredAt.
ExpiredAtNoMaxAge(s, t) == IF s.Persist # 1 THEN t ELSE ZeroTime
ExpiredAt(s, t) == IF s.Persist # 1 THEN t + s.MaxAge ELSE ZeroTime

\* setAltServices, lines 254-269, on the map m at time t: the loop from index i
\* with val built so far.  A record with Clear deletes the entry and returns.
RECURSIVE setAltServicesLoop(_, _, _, _, _, _)
setAltServicesLoop(m, h, svcs, i, val, t) ==
    IF i > Len(svcs)
      THEN [x \in DOMAIN m \cup {h} |-> IF x = h THEN val ELSE m[x]]
      ELSE IF svcs[i].Clear = TRUE
        THEN [x \in DOMAIN m \ {h} |-> m[x]]
        ELSE setAltServicesLoop(m, h, svcs, i + 1,
                                Append(val, altSvc(svcs[i], ExpiredAt(svcs[i], t))), t)

setAltServicesNoClear(m, h, svcs, t) ==
    [x \in DOMAIN m \cup {h} |-> IF x = h THEN MakeAltSvcs(Len(svcs)) ELSE m[x]]
setAltServices(m, h, svcs, t) ==
    setAltServicesLoop(m, h, svcs, 1, MakeAltSvcs(Len(svcs)), t)

\* getAltServices, line 280: !time.Now().After(s.expiredAt) || s.Persist == 1
StillValidNoPersist(s, t) == ~(t > s.expiredAt)
StillValid(s, t) == ~(t > s.expiredAt) \/ s.Persist = 1

\* getAltServices, lines 277-284, on the map m at time t: (ret, ok)
getAltServices(m, h, t) ==
    LET ok == h \in DOMAIN m
        svcs == IF ok THEN m[h] ELSE <<>>
        valid(s) == StillValid(s, t)
    IN  [ret |-> MakeAltSvcs(Len(svcs)) \o SelectSeq(svcs, valid), ok |-> ok]

\* RoundTripOpt, lines 152-158
h3Ready(ownedSvcs) ==
    \E i \in 1..Len(ownedSvcs) : HasPrefix(ownedSvcs[i].ProtocolID, H3)

\* RoundTripOpt, lines 194 and 201: if res != nil
HasResponseAlways(o) == TRUE
HasResponse(o) == o.res # Nil

\* A request as the checks of lines 105-137 see it.  A header field is a name
\* and its values, each valid or not for httpguts; a method is a sequence of
\* characters.
Field(nameOk, valuesOk) == [nameOk |-> nameOk, valuesOk |-> valuesOk]
GoodField == Field(TRUE, <<TRUE>>)
BadNameField == Field(FALSE, <<TRUE>>)
BadValueField == Field(TRUE, <<TRUE, FALSE>>)
Header(isNil, fields) == [isNil |-> isNil, fields |-> fields]
NilHeader == Header(TRUE, {})
Headers == {NilHeader}
             \cup { Header(FALSE, fs) : fs \in SUBSET {GoodField, BadNameField, BadValueField} }
GET == <<"G", "E", "T">>
Methods == {<<>>, GET, <<"G", " ">>}
Request(url, host, scheme, header, method, body, skip) ==
    [URL |-> url, Host |-> host, Scheme |-> scheme, Header |-> header,
     Method |-> method, Body |-> body, SkipSchemeCheck |-> skip]
Requests ==
    { Request(Nil, "", "", hd, m, b, sk) :
        hd \in Headers, m \in Methods, b \in {Nil, "body"}, sk \in BOOLEAN }
    \cup { Request("url", h, sc, hd, m, b, sk) :
        h \in {"", "a"}, sc \in {"https", "masque"}, hd \in Headers,
        m \in Methods, b \in {Nil, "body"}, sk \in BOOLEAN }
NoRequest == Request(Nil, "", "", NilHeader, <<>>, Nil, FALSE)

VARIABLES
    ConnectionDiscovery, \* r.ConnectionDiscovery, fixed at construction
    now,                 \* time.Now()
    mutex,               \* r.mutex: Free, the call holding it, or Closer
    clients,             \* r.clients: host -> handle
    altSvcs,             \* r.altSvcs: host -> sequence of altSvc
    pc,                  \* where each call of RoundTripOpt stands
    hostname,            \* the call's authority
    onlyCached,          \* opt.OnlyCachedConn of the call
    cl,                  \* the handle getClient returned to the call
    spc,                 \* where each subroutine of the call stands
    subRes,              \* what each transport returned to the call
    once,                \* sync.Once of the call: fresh, running, done
    ret,                 \* what RoundTripOpt returned
    cpc,                 \* where Close stands
    crem,                \* hosts whose handle this Close has not closed
    cret,                \* what Close returned
    started,             \* requests issued so far
    nextHandle,          \* handles newClient has returned so far
    closedHandles,       \* handles whose Close has been called
    made,                \* host -> handles newClient returned since the map was last cleared
    fcalls,              \* host -> calls of newClient since the map was last cleared
    delivered,           \* call -> results received from resChan
    advAtStart,          \* call -> its host had advertised "h3", max-age not run out, when it began
    winner,              \* call -> the subroutine whose once.Do ran its function
    h3Ever,              \* host -> latest now + max-age of any "h3" record a response advertised
    h3Last,              \* host -> the same, of the last batch recorded alone
    lastClear,           \* host -> whether the last batch recorded held a clear record,
                         \*         and whether it found an entry stored
    sharedReq,           \* call -> what the variable req, captured by both subroutines, holds
    used,                \* call -> the request each subroutine passed to its transport
    req,                 \* the request RoundTripOpt is checking (lines 105-137)
    vpc,                 \* the check RoundTripOpt has reached
    bodyClosed,          \* calls of req.Body.Close()
    verr                 \* the error the checks returned

vars == <<ConnectionDiscovery, now, mutex, clients, altSvcs, pc, hostname, onlyCached,
          cl, spc, subRes, once, ret, cpc, crem, cret, started, nextHandle, closedHandles,
          made, fcalls, delivered, winner, advAtStart, h3Ever, h3Last, lastClear,
          sharedReq, used, req, vpc, bodyClosed, verr>>

callVars == <<pc, hostname, onlyCached, cl, spc, subRes, once, ret, delivered, winner,
             advAtStart>>
advVars == <<h3Ever, h3Last, lastClear>>
closeVars == <<cpc, crem, cret, closedHandles>>
histVars == <<nextHandle, made, fcalls>>
reqVars == <<req, vpc, bodyClosed, verr>>
raceVars == <<sharedReq, used>>
rtVars == <<ConnectionDiscovery, now, mutex, clients, altSvcs, callVars, closeVars,
           histVars, advVars, raceVars, started>>

Init ==
    /\ ConnectionDiscovery \in {ConnectionDiscoveryAltSvc, ConnectionDiscoveryHappyEyeballs}
    /\ now = 0
    /\ mutex = Free
    /\ clients = EmptyMap
    /\ altSvcs = [h \in {} |-> <<>>]
    /\ pc = [c \in Calls |-> "idle"]
    /\ hostname = [c \in Calls |-> Nil]
    /\ onlyCached = [c \in Calls |-> FALSE]
    /\ cl = [c \in Calls |-> NoHandle]
    /\ spc = [c \in Calls |-> [g \in Subs |-> "none"]]
    /\ subRes = [c \in Calls |-> [g \in Subs |-> NoTrip]]
    /\ once = [c \in Calls |-> "fresh"]
    /\ ret = [c \in Calls |-> NoTrip]
    /\ cpc = "idle"
    /\ crem = {}
    /\ cret = Nil
    /\ started = 0
    /\ nextHandle = 0
    /\ closedHandles = {}
    /\ made = [h \in Hosts |-> {}]
    /\ fcalls = [h \in Hosts |-> 0]
    /\ delivered = [c \in Calls |-> 0]
    /\ winner = [c \in Calls |-> Nil]
    /\ advAtStart = [c \in Calls |-> FALSE]
    /\ h3Ever = [h \in Hosts |-> NotAdvertised]
    /\ h3Last = [h \in Hosts |-> NotAdvertised]
    /\ lastClear = [h \in Hosts |-> "no"]
    /\ sharedReq = [c \in Calls |-> "req"]
    /\ used = [c \in Calls |-> [g \in Subs |-> Nil]]
    /\ req = NoRequest
    /\ vpc = "idle"
    /\ bodyClosed = 0
    /\ verr = Nil

\* ------------------------------------------------------------- the clock
Tick ==
    /\ now < MaxTime
    /\ now' = now + 1
    /\ UNCHANGED <<reqVars, raceVars, ConnectionDiscovery, mutex, clients, altSvcs>>
    /\ UNCHANGED <<callVars, closeVars, histVars, advVars, started>>

\* ------------------------------------------------------------- r.mutex
MutexNotChecked == TRUE
MutexFree == mutex = Free

\* ------------------------------------------------------------- RoundTripOpt
\* A request that passes the checks of lines 105-137; hostname is line 139.
Start(c, h, oc) ==
    /\ pc[c] = "idle"
    /\ started < MaxRequests
    /\ started' = started + 1
    /\ pc' = [pc EXCEPT ![c] = "getClient"]
    /\ hostname' = [hostname EXCEPT ![c] = h]
    /\ onlyCached' = [onlyCached EXCEPT ![c] = oc]
    /\ advAtStart' = [advAtStart EXCEPT ![c] = now <= h3Ever[h]]
    /\ UNCHANGED <<reqVars, raceVars, ConnectionDiscovery, now, mutex, clients, altSvcs>>
    /\ UNCHANGED <<cl, spc, subRes, once, ret, delivered, winner>>
    /\ UNCHANGED <<closeVars, histVars, advVars>>

\* getClient, line 219: defer r.mutex.Unlock(), the mutex at the return
StillLocked(c) == c
Unlocked(c) == Free

\* getClient, line 218: r.mutex.Lock()
GetClientLock(c) ==
    /\ pc[c] = "getClient"
    /\ MutexFree
    /\ mutex' = c
    /\ pc' = [pc EXCEPT ![c] = "gcLookup"]
    /\ UNCHANGED <<reqVars, raceVars, ConnectionDiscovery, now, clients, altSvcs>>
    /\ UNCHANGED <<hostname, onlyCached, cl, spc, subRes, once, ret, delivered, winner, advAtStart>>
    /\ UNCHANGED <<closeVars, histVars, advVars, started>>

\* getClient, line 227: if onlyCached
OnlyCachedIgnored(c) == FALSE
OnlyCached(c) == onlyCached[c]

\* getClient, lines 225-229 and 247: the lookup; a hit and the onlyCached miss return.
GetClientLookup(c) ==
    /\ pc[c] = "gcLookup"
    /\ LET h == hostname[c] IN
         IF h \in DOMAIN clients
           THEN /\ cl' = [cl EXCEPT ![c] = clients[h]]
                /\ pc' = [pc EXCEPT ![c] = "switch"]
                /\ mutex' = Unlocked(c)
                /\ ret' = ret
           ELSE IF OnlyCached(c)
             THEN /\ ret' = [ret EXCEPT ![c] = subTrip(Nil, ErrNoCachedConn)]
                  /\ pc' = [pc EXCEPT ![c] = "done"]
                  /\ mutex' = Unlocked(c)
                  /\ cl' = cl
             ELSE /\ pc' = [pc EXCEPT ![c] = "gcCreate"]
                  /\ UNCHANGED <<mutex, cl, ret>>
    /\ UNCHANGED <<reqVars, raceVars, ConnectionDiscovery, now, clients, altSvcs>>
    /\ UNCHANGED <<hostname, onlyCached, spc, subRes, once, delivered, winner, advAtStart>>
    /\ UNCHANGED <<closeVars, histVars, advVars, started>>

\* getClient, lines 231-247: newClient, and the handle stored on success.
GetClientCreate(c, ok) ==
    /\ pc[c] = "gcCreate"
    /\ LET h == hostname[c] IN
         /\ fcalls' = [fcalls EXCEPT ![h] = IF @ < MaxFactoryCalls THEN @ + 1 ELSE @]
         /\ IF ok
              THEN /\ nextHandle < MaxHandles
                   /\ nextHandle' = nextHandle + 1
                   /\ clients' = [x \in DOMAIN clients \cup {h} |->
                                    IF x = h THEN nextHandle + 1 ELSE clients[x]]
                   /\ made' = [made EXCEPT ![h] = @ \cup {nextHandle + 1}]
                   /\ cl' = [cl EXCEPT ![c] = nextHandle + 1]
                   /\ pc' = [pc EXCEPT ![c] = "switch"]
                   /\ ret' = ret
              ELSE /\ ret' = [ret EXCEPT ![c] = subTrip(Nil, NewClientErr)]
                   /\ pc' = [pc EXCEPT ![c] = "done"]
                   /\ UNCHANGED <<nextHandle, clients, made, cl>>
    /\ mutex' = Unlocked(c)
    /\ UNCHANGED <<reqVars, raceVars, ConnectionDiscovery, now, altSvcs>>
    /\ UNCHANGED <<hostname, onlyCached, spc, subRes, once, delivered, winner, advAtStart>>
    /\ UNCHANGED <<closeVars, advVars, started>>

\* The caller issues its next request.
Reset(c) ==
    /\ pc[c] = "done"
    /\ \A g \in Subs : spc[c][g] \in {"none", "done"}
    /\ pc' = [pc EXCEPT ![c] = "idle"]
    /\ hostname' = [hostname EXCEPT ![c] = Nil]
    /\ onlyCached' = [onlyCached EXCEPT ![c] = FALSE]
    /\ cl' = [cl EXCEPT ![c] = NoHandle]
    /\ spc' = [spc EXCEPT ![c] = [g \in Subs |-> "none"]]
    /\ subRes' = [subRes EXCEPT ![c] = [g \in Subs |-> NoTrip]]
    /\ once' = [once EXCEPT ![c] = "fresh"]
    /\ ret' = [ret EXCEPT ![c] = NoTrip]
    /\ delivered' = [delivered EXCEPT ![c] = 0]
    /\ winner' = [winner EXCEPT ![c] = Nil]
    /\ advAtStart' = [advAtStart EXCEPT ![c] = FALSE]
    /\ sharedReq' = [sharedReq EXCEPT ![c] = "req"]
    /\ used' = [used EXCEPT ![c] = [g \in Subs |-> Nil]]
    /\ UNCHANGED <<reqVars, ConnectionDiscovery, now, mutex, clients, altSvcs>>
    /\ UNCHANGED <<closeVars, histVars, advVars, started>>

\* ------------------------------------------------------------- Alt-Svc
\* The latest now + max-age among the "h3" records of a batch.
RECURSIVE H3Until(_, _)
H3Until(svcs, t) ==
    IF svcs = <<>> THEN NotAdvertised
    ELSE LET rest == H3Until(Tail(svcs), t)
             mine == IF Head(svcs).ProtocolID = H3 THEN t + Head(svcs).MaxAge
                     ELSE NotAdvertised
         IN  IF mine > rest THEN mine ELSE rest
HasClear(svcs) == \E i \in 1..Len(svcs) : svcs[i].Clear

\* RoundTripOpt, lines 151-162: getAltServices under the lock, and the choice
\* of the transport.
AltSvcLookup(c) ==
    /\ pc[c] = "switch"
    /\ ConnectionDiscovery = ConnectionDiscoveryAltSvc
    /\ MutexFree
    /\ LET r == getAltServices(altSvcs, hostname[c], now) IN
         pc' = [pc EXCEPT ![c] = IF r.ok /\ h3Ready(r.ret) THEN "quicRT" ELSE "tcpDo"]
    /\ UNCHANGED <<reqVars, raceVars, ConnectionDiscovery, now, mutex, clients, altSvcs>>
    /\ UNCHANGED <<hostname, onlyCached, cl, spc, subRes, once, ret, delivered, winner, advAtStart>>
    /\ UNCHANGED <<closeVars, histVars, advVars, started>>

\* RoundTripOpt, lines 160-161: res, err := cl.RoundTrip(req); return res, err
AltSvcQuic(c, o) ==
    /\ pc[c] = "quicRT"
    /\ subRes' = [subRes EXCEPT ![c]["quic"] = o]
    /\ ret' = [ret EXCEPT ![c] = o]
    /\ pc' = [pc EXCEPT ![c] = "done"]
    /\ UNCHANGED <<reqVars, raceVars, ConnectionDiscovery, now, mutex, clients, altSvcs>>
    /\ UNCHANGED <<hostname, onlyCached, cl, spc, once, delivered, winner, advAtStart>>
    /\ UNCHANGED <<closeVars, histVars, advVars, started>>

\* RoundTripOpt, lines 163-164: res, err := tcpClient.Do(req), then
\* res.Header.Get("Alt-Svc"), which dereferences res: a nil res panics.
AltSvcTcp(c, o) ==
    /\ pc[c] = "tcpDo"
    /\ subRes' = [subRes EXCEPT ![c]["tcp"] = o]
    /\ pc' = [pc EXCEPT ![c] = IF o.res = Nil THEN "panic" ELSE "setAlt"]
    /\ UNCHANGED <<reqVars, raceVars, ConnectionDiscovery, now, mutex, clients, altSvcs>>
    /\ UNCHANGED <<hostname, onlyCached, cl, spc, once, ret, delivered, winner, advAtStart>>
    /\ UNCHANGED <<closeVars, histVars, advVars, started>>

\* RoundTripOpt, lines 165-167: svcs, err := altsvc.Parse(hdr) assigns the err of
\* line 163 again; setAltServices under the lock; return res, err.
AltSvcRecord(c, p) ==
    /\ pc[c] = "setAlt"
    /\ MutexFree
    /\ LET h == hostname[c] IN
         /\ altSvcs' = setAltServices(altSvcs, h, p.svcs, now)
         /\ h3Ever' = [h3Ever EXCEPT ![h] =
                         IF H3Until(p.svcs, now) > @ THEN H3Until(p.svcs, now) ELSE @]
         /\ h3Last' = [h3Last EXCEPT ![h] =
                         IF HasClear(p.svcs) THEN NotAdvertised ELSE H3Until(p.svcs, now)]
         /\ lastClear' = [lastClear EXCEPT ![h] =
                            IF ~HasClear(p.svcs) THEN "no"
                            ELSE IF h \in DOMAIN altSvcs THEN "entry" ELSE "empty"]
    /\ ret' = [ret EXCEPT ![c] = subTrip(subRes[c]["tcp"].res, p.err)]
    /\ pc' = [pc EXCEPT ![c] = "done"]
    /\ UNCHANGED <<reqVars, raceVars, ConnectionDiscovery, now, mutex, clients>>
    /\ UNCHANGED <<hostname, onlyCached, cl, spc, subRes, once, delivered, winner, advAtStart>>
    /\ UNCHANGED <<closeVars, histVars, started>>

\* ------------------------------------------------------------- Happy Eyeballs
\* RoundTripOpt, lines 169-205: once and resChan made, both subroutines
\* started, the caller at sub := <-resChan.
RaceSpawn(c) ==
    /\ pc[c] = "switch"
    /\ ConnectionDiscovery = ConnectionDiscoveryHappyEyeballs
    /\ pc' = [pc EXCEPT ![c] = "recv"]
    /\ spc' = [spc EXCEPT ![c] = [g \in Subs |-> "rt"]]
    /\ once' = [once EXCEPT ![c] = "fresh"]
    /\ UNCHANGED <<reqVars, raceVars, ConnectionDiscovery, now, mutex, clients, altSvcs>>
    /\ UNCHANGED <<hostname, onlyCached, cl, subRes, ret, delivered, winner, advAtStart>>
    /\ UNCHANGED <<closeVars, histVars, advVars, started>>

\* Lines 192-194 and 199-201: the clone and the round trip of a subroutine;
\* without a response the subroutine ends.  The accesses of the two
\* subroutines to the variable req are the steps of SpecRace below.
SubRoundTrip(c, g, o) ==
    /\ spc[c][g] = "rt"
    /\ subRes' = [subRes EXCEPT ![c][g] = o]
    /\ spc' = [spc EXCEPT ![c][g] = IF HasResponse(o) THEN "once" ELSE "done"]
    /\ UNCHANGED <<reqVars, raceVars, ConnectionDiscovery, now, mutex, clients, altSvcs>>
    /\ UNCHANGED <<pc, hostname, onlyCached, cl, once, ret, delivered, winner, advAtStart>>
    /\ UNCHANGED <<closeVars, histVars, advVars, started>>

\* sync.Once: Do returns at once when the function has run.
OnceDoneNever(c) == FALSE
OnceDone(c) == once[c] = "done"

\* Lines 195 and 202: once.Do.  The first caller runs the function; a caller
\* that finds it running waits for its end; a later caller returns.
SubOnceDo(c, g) ==
    /\ spc[c][g] = "once"
    /\ once[c] # "running"
    /\ IF OnceDone(c)
         THEN /\ spc' = [spc EXCEPT ![c][g] = "done"]
              /\ UNCHANGED <<once, winner>>
         ELSE /\ spc' = [spc EXCEPT ![c][g] = "send"]
              /\ once' = [once EXCEPT ![c] = "running"]
              /\ winner' = [winner EXCEPT ![c] = g]
    /\ UNCHANGED <<reqVars, raceVars, ConnectionDiscovery, now, mutex, clients, altSvcs>>
    /\ UNCHANGED <<pc, hostname, onlyCached, cl, subRes, ret, delivered, advAtStart>>
    /\ UNCHANGED <<closeVars, histVars, advVars, started>>

\* Lines 195/202 and 205-206: resChan is unbuffered, the send and the receive
\* of the caller happen together; the caller returns sub.res, sub.err.
SubSend(c, g) ==
    /\ spc[c][g] = "send"
    /\ pc[c] = "recv"
    /\ ret' = [ret EXCEPT ![c] = subRes[c][g]]
    /\ delivered' = [delivered EXCEPT ![c] = @ + 1]
    /\ pc' = [pc EXCEPT ![c] = "done"]
    /\ once' = [once EXCEPT ![c] = "done"]
    /\ spc' = [spc EXCEPT ![c][g] = "done"]
    /\ UNCHANGED <<reqVars, raceVars, ConnectionDiscovery, now, mutex, clients, altSvcs>>
    /\ UNCHANGED <<hostname, onlyCached, cl, subRes, winner, advAtStart>>
    /\ UNCHANGED <<closeVars, histVars, advVars, started>>

\* ------------------------------------------------------------- the variable req
\* Lines 189-204 with the accesses to req as steps.  Both subroutines capture
\* the one variable req of RoundTripOpt; each reads it, assigns its clone to
\* it (lines 192, 199) and reads it again as the argument of its transport
\* (lines 193, 200), with no synchronisation between the two.
Clone(g) == g

RaceSpawnShared(c) ==
    /\ pc[c] = "switch"
    /\ ConnectionDiscovery = ConnectionDiscoveryHappyEyeballs
    /\ pc' = [pc EXCEPT ![c] = "recv"]
    /\ spc' = [spc EXCEPT ![c] = [g \in Subs |-> "clone"]]
    /\ once' = [once EXCEPT ![c] = "fresh"]
    /\ sharedReq' = [sharedReq EXCEPT ![c] = "req"]
    /\ UNCHANGED <<reqVars, used, ConnectionDiscovery, now, mutex, clients, altSvcs>>
    /\ UNCHANGED <<hostname, onlyCached, cl, subRes, ret, delivered, winner, advAtStart>>
    /\ UNCHANGED <<closeVars, histVars, advVars, started>>

\* Lines 192 and 199: req = req.Clone(ctx)
SubClone(c, g) ==
    /\ spc[c][g] = "clone"
    /\ sharedReq' = [sharedReq EXCEPT ![c] = Clone(g)]
    /\ spc' = [spc EXCEPT ![c][g] = "arg"]
    /\ UNCHANGED <<reqVars, used, ConnectionDiscovery, now, mutex, clients, altSvcs>>
    /\ UNCHANGED <<pc, hostname, onlyCached, cl, subRes, once, ret, delivered, winner, advAtStart>>
    /\ UNCHANGED <<closeVars, histVars, advVars, started>>

\* Lines 193 and 200: req read as the argument of cl.RoundTrip / tcpClient.Do
SubArg(c, g) ==
    /\ spc[c][g] = "arg"
    /\ used' = [used EXCEPT ![c][g] = sharedReq[c]]
    /\ spc' = [spc EXCEPT ![c][g] = "rt"]
    /\ UNCHANGED <<reqVars, sharedReq, ConnectionDiscovery, now, mutex, clients, altSvcs>>
    /\ UNCHANGED <<pc, hostname, onlyCached, cl, subRes, once, ret, delivered, winner, advAtStart>>
    /\ UNCHANGED <<closeVars, histVars, advVars, started>>

\* ------------------------------------------------------------- Close
\* Close, line 289, and the start of the range over r.clients.
CloseLock ==
    /\ cpc = "idle"
    /\ MutexFree
    /\ mutex' = Closer
    /\ cpc' = "range"
    /\ crem' = DOMAIN clients
    /\ cret' = Nil
    /\ UNCHANGED <<reqVars, raceVars, ConnectionDiscovery, now, clients, altSvcs, closedHandles>>
    /\ UNCHANGED <<callVars, histVars, advVars, started>>

\* Close, lines 291-295: one iteration; the map is ranged over in any order.
CloseClient(h, err) ==
    /\ cpc = "range"
    /\ h \in crem
    /\ closedHandles' = closedHandles \cup {clients[h]}
    /\ IF err # Nil
         THEN /\ cret' = err
              /\ cpc' = "returned"
              /\ mutex' = Free
         ELSE UNCHANGED <<cret, cpc, mutex>>
    /\ crem' = crem \ {h}
    /\ UNCHANGED <<reqVars, raceVars, ConnectionDiscovery, now, clients, altSvcs>>
    /\ UNCHANGED <<callVars, histVars, advVars, started>>

\* Close, lines 296-297: the range is over.
CloseFinish ==
    /\ cpc = "range"
    /\ crem = {}
    /\ clients' = EmptyMap
    /\ made' = [h \in Hosts |-> {}]
    /\ fcalls' = [h \in Hosts |-> 0]
    /\ cret' = Nil
    /\ cpc' = "returned"
    /\ mutex' = Free
    /\ UNCHANGED <<reqVars, raceVars, ConnectionDiscovery, now, altSvcs, crem, closedHandles, nextHandle>>
    /\ UNCHANGED <<callVars, advVars, started>>

\* ------------------------------------------------------------- the checks
\* RoundTripOpt, lines 105-137, on one request.

\* isNotToken, validMethod (lines 306-326)
isNotToken(r) == r \in {" ", "(", ")", ",", "/", ":", ";"}
validMethod(method) ==
    Len(method) > 0 /\ \A i \in 1..Len(method) : ~isNotToken(method[i])

\* closeRequestBody (lines 300-304), as the new count of Close calls
closeRequestBody(r, n) == IF r.Body # Nil THEN n + 1 ELSE n

\* A caller passes a request to RoundTripOpt.
Receive(r) ==
    /\ vpc = "idle"
    /\ req' = r
    /\ vpc' = "checkURL"
    /\ bodyClosed' = 0
    /\ verr' = Nil
    /\ UNCHANGED rtVars

\* Lines 105-108
CheckURL ==
    /\ vpc = "checkURL"
    /\ IF req.URL = Nil
         THEN /\ bodyClosed' = closeRequestBody(req, bodyClosed)
              /\ verr' = "nil Request.URL"
              /\ vpc' = "rejected"
         ELSE /\ vpc' = "checkHost"
              /\ UNCHANGED <<bodyClosed, verr>>
    /\ UNCHANGED <<req, rtVars>>

\* Lines 109-112
CheckHost ==
    /\ vpc = "checkHost"
    /\ IF req.Host = ""
         THEN /\ bodyClosed' = closeRequestBody(req, bodyClosed)
              /\ verr' = "no Host in request URL"
              /\ vpc' = "rejected"
         ELSE /\ vpc' = "checkHeader"
              /\ UNCHANGED <<bodyClosed, verr>>
    /\ UNCHANGED <<req, rtVars>>

\* Lines 113-116
CheckHeader ==
    /\ vpc = "checkHeader"
    /\ IF req.Header.isNil
         THEN /\ bodyClosed' = closeRequestBody(req, bodyClosed)
              /\ verr' = "nil Request.Header"
              /\ vpc' = "rejected"
         ELSE /\ vpc' = "checkScheme"
              /\ UNCHANGED <<bodyClosed, verr>>
    /\ UNCHANGED <<req, rtVars>>

\* Lines 118-132.  Under https the fields of the header are ranged over in
\* any order and the first invalid name or value returns, lines 121 and 125,
\* without closeRequestBody; another scheme is refused unless SkipSchemeCheck.
InvalidField(f) == ~f.nameOk \/ \E i \in 1..Len(f.valuesOk) : ~f.valuesOk[i]
CheckScheme(e) ==
    /\ vpc = "checkScheme"
    /\ IF req.Scheme = "https"
         THEN IF \E f \in req.Header.fields : InvalidField(f)
                THEN /\ e \in { IF f.nameOk THEN "invalid http header field value"
                                            ELSE "invalid http header field name" :
                                  f \in {x \in req.Header.fields : InvalidField(x)} }
                     /\ verr' = e
                     /\ vpc' = "rejected"
                     /\ UNCHANGED bodyClosed
                ELSE /\ e = Nil
                     /\ vpc' = "checkMethod"
                     /\ UNCHANGED <<bodyClosed, verr>>
         ELSE IF ~req.SkipSchemeCheck
                THEN /\ e = Nil
                     /\ bodyClosed' = closeRequestBody(req, bodyClosed)
                     /\ verr' = "unsupported protocol scheme"
                     /\ vpc' = "rejected"
                ELSE /\ e = Nil
                     /\ vpc' = "checkMethod"
                     /\ UNCHANGED <<bodyClosed, verr>>
    /\ UNCHANGED <<req, rtVars>>

\* Lines 134-137; a request that passes is at line 139.
CheckMethod ==
    /\ vpc = "checkMethod"
    /\ IF req.Method # <<>> /\ ~validMethod(req.Method)
         THEN /\ bodyClosed' = closeRequestBody(req, bodyClosed)
              /\ verr' = "invalid method"
              /\ vpc' = "rejected"
         ELSE /\ vpc' = "passed"
              /\ UNCHANGED <<bodyClosed, verr>>
    /\ UNCHANGED <<req, rtVars>>

\* The caller, after the return or at line 139, turns to its next request.
NextRequest ==
    /\ vpc \in {"rejected", "passed"}
    /\ vpc' = "idle"
    /\ req' = NoRequest
    /\ bodyClosed' = 0
    /\ verr' = Nil
    /\ UNCHANGED rtVars

NextChecks ==
    \/ \E r \in Requests : Receive(r)
    \/ CheckURL
    \/ CheckHost
    \/ CheckHeader
    \/ \E e \in {Nil, "invalid http header field name", "invalid http header field value"} :
          CheckScheme(e)
    \/ CheckMethod
    \/ NextRequest

\* The calls of RoundTripOpt up to the return of getClient.
NextCalls ==
    \/ \E c \in Calls, h \in Hosts, oc \in BOOLEAN : Start(c, h, oc)
    \/ \E c \in Calls : GetClientLock(c)
    \/ \E c \in Calls : GetClientLookup(c)
    \/ \E c \in Calls, ok \in BOOLEAN : GetClientCreate(c, ok)
    \/ \E c \in Calls : Reset(c)

\* The owner of the RoundTripper calls Close, once.
NextClose ==
    \/ CloseLock
    \/ \E h \in Hosts, err \in {Nil, CloseErr} : CloseClient(h, err)
    \/ CloseFinish

NextAltSvc ==
    \/ Tick
    \/ \E c \in Calls : AltSvcLookup(c)
    \/ \E c \in Calls, o \in QuicOutcomes : AltSvcQuic(c, o)
    \/ \E c \in Calls, o \in TcpOutcomes : AltSvcTcp(c, o)
    \/ \E c \in Calls, p \in ParseOutcomes : AltSvcRecord(c, p)

NextHappyEyeballs ==
    \/ \E c \in Calls : RaceSpawn(c)
    \/ \E c \in Calls, g \in Subs : \E o \in Outcomes(g) : SubRoundTrip(c, g, o)
    \/ \E c \in Calls, g \in Subs : SubOnceDo(c, g)
    \/ \E c \in Calls, g \in Subs : SubSend(c, g)

NextRace ==
    \/ \E c \in Calls : RaceSpawnShared(c)
    \/ \E c \in Calls, g \in Subs : SubClone(c, g)
    \/ \E c \in Calls, g \in Subs : SubArg(c, g)
    \/ \E c \in Calls, g \in Subs : \E o \in Outcomes(g) : SubRoundTrip(c, g, o)
    \/ \E c \in Calls, g \in Subs : SubOnceDo(c, g)
    \/ \E c \in Calls, g \in Subs : SubSend(c, g)

\* The RoundTripper under either strategy, serving requests that passed the
\* checks, with Close.
Next == NextCalls \/ NextClose \/ NextAltSvc \/ NextHappyEyeballs

Spec == Init /\ [][Next]_vars

\* The checks RoundTripOpt makes of a request before line 139.
SpecChecks == Init /\ [][NextChecks]_vars

\* A RoundTripper constructed with ConnectionDiscoveryAltSvc, in the runs in
\* which Close is not called.
InitAltSvc == Init /\ ConnectionDiscovery = ConnectionDiscoveryAltSvc

SpecAltSvc ==
    /\ InitAltSvc
    /\ [][NextCalls \/ NextAltSvc]_vars

\* A RoundTripper constructed with ConnectionDiscoveryHappyEyeballs; it never
\* reads the clock.
InitHappyEyeballs == Init /\ ConnectionDiscovery = ConnectionDiscoveryHappyEyeballs

SpecHappyEyeballs ==
    /\ InitHappyEyeballs
    /\ [][NextCalls \/ NextClose \/ NextHappyEyeballs]_vars

\* Happy Eyeballs with the accesses of the subroutines to the variable req,
\* in the runs in which Close is not called.
SpecRace ==
    /\ InitHappyEyeballs
    /\ [][NextCalls \/ NextRace]_vars

\* SpecHappyEyeballs with the Go scheduler: a subroutine that can take its step at
\* once.Do or at its send on resChan is eventually run.
FairSpecHappyEyeballs ==
    /\ SpecHappyEyeballs
    /\ \A c \in Calls, g \in Subs :
          WF_vars(SubOnceDo(c, g)) /\ WF_vars(SubSend(c, g))

\* ================================================================ claims
Responded(c, g) == subRes[c][g].res # Nil
Failed(c, g) == subRes[c][g].res = Nil /\ subRes[c][g].err # Nil
Other(g) == IF g = "quic" THEN "tcp" ELSE "quic"
Raced(c) == \A g \in Subs : spc[c][g] # "none"

\* C1: under Happy Eyeballs, when both subroutines have ended with an error
\* and no response, RoundTripOpt has returned to its caller one of the two
\* failures; the caller is not left waiting on resChan.
C1_BothFailReturnsFailure ==
    \A c \in Calls :
        (\A g \in Subs : spc[c][g] = "done" /\ Failed(c, g))
            => /\ pc[c] = "done"
               /\ ret[c] \in {subRes[c][g] : g \in Subs}

C3_FailureSuppressed ==
    \A c \in Calls : \A g \in Subs :
        (spc[c][g] = "done" /\ Failed(c, g))
            => /\ (spc[c][Other(g)] \in {"rt", "once", "send"} => pc[c] = "recv")
               /\ (spc[c][Other(g)] = "done" /\ Responded(c, Other(g))
                     => pc[c] = "done" /\ ret[c] = subRes[c][Other(g)])

\* C3 witness: the QUIC subroutine failed, the TCP subroutine's response was
\* returned.
C3_Witness ==
    \E c \in Calls :
        /\ spc[c]["quic"] = "done" /\ Failed(c, "quic")
        /\ spc[c]["tcp"] = "done" /\ Responded(c, "tcp")
        /\ pc[c] = "done" /\ ret[c] = subRes[c]["tcp"]

\* C4, as stated: newClient is called at most once for a host while the map is
\* not cleared, and the map's handle is the one every call got.
C4_FactoryCalledOnce ==
    \A h \in Hosts :
        /\ fcalls[h] <= 1
        /\ Cardinality(made[h]) <= 1

\* C4, amended: newClient returns at most one handle for a host while the map
\* is not cleared; that handle is the one the map holds, and the handle a call
\* got from getClient is the one stored for its host unless Close has closed it.
C4_OneHandlePerHost ==
    /\ \A h \in Hosts :
        /\ Cardinality(made[h]) <= 1
        /\ (h \in DOMAIN clients => made[h] = {clients[h]})
    /\ \A c \in Calls :
        cl[c] # NoHandle
            => \/ cl[c] \in closedHandles
               \/ hostname[c] \in DOMAIN clients /\ clients[hostname[c]] = cl[c]

\* C4 witness: two calls to the same host hold the same stored handle.
C4_Witness ==
    \E c1, c2 \in Calls :
        /\ c1 # c2
        /\ hostname[c1] = hostname[c2]
        /\ cl[c1] # NoHandle
        /\ cl[c1] = cl[c2]
        /\ clients[hostname[c1]] = cl[c1]

\* C5: under Alt-Svc, no handle is stored for a host that has no entry in the
\* Alt-Svc cache and has never advertised "h3"; a call to such a host that
\* returned a transport's result made one TCP round trip and none over QUIC.
C5_NoHandleUntilAdvertised ==
    /\ \A h \in Hosts :
         (h \notin DOMAIN altSvcs /\ h3Ever[h] = NotAdvertised) => h \notin DOMAIN clients
    /\ \A c \in Calls :
         (/\ pc[c] = "done"
          /\ hostname[c] \notin DOMAIN altSvcs
          /\ h3Ever[hostname[c]] = NotAdvertised
          /\ ret[c].err \notin {ErrNoCachedConn, NewClientErr})
            => subRes[c]["tcp"] # NoTrip /\ subRes[c]["quic"] = NoTrip

\* The step of a call from the switch of line 149 to one of the transports.
Dispatches(c) == pc[c] = "switch" /\ pc'[c] # "switch"

\* C6, as stated: once a response has advertised an "h3" record with max-age
\* N at time t, every call that begins after it and reaches the choice of the
\* transport no later than t + N goes over QUIC.
C6_H3WithinMaxAge ==
    [][\A c \in Calls :
         (Dispatches(c) /\ advAtStart[c] /\ now <= h3Ever[hostname[c]])
            => pc'[c] = "quicRT"]_vars

\* C6, amended: when the batch last recorded for the host held no clear record
\* and an "h3" record with max-age N, recorded at time t, every call that
\* reaches the choice of the transport no later than t + N goes over QUIC, and
\* a call that went over QUIC makes no TCP round trip.
C6_H3WithinMaxAgeOfLastBatch ==
    /\ [][\A c \in Calls :
            (Dispatches(c) /\ now <= h3Last[hostname[c]]) => pc'[c] = "quicRT"]_vars
    /\ [](\A c \in Calls :
            (pc[c] = "quicRT" \/ subRes[c]["quic"] # NoTrip) => subRes[c]["tcp"] = NoTrip)

\* C6 witness: a call was answered over QUIC within the max-age of the "h3"
\* record last recorded for its host, a second after it was recorded.
C6_Witness ==
    \E c \in Calls :
        /\ pc[c] = "done"
        /\ Responded(c, "quic")
        /\ now = 1
        /\ h3Last[hostname[c]] = 1

\* C7: under Alt-Svc, when the host has no entry and the TCP round trip ends
\* with an error and no response, RoundTripOpt returns that error and the
\* Alt-Svc cache is as before.
C7_TcpFailureReturned ==
    [][\A c \in Calls :
         (/\ pc[c] = "tcpDo" /\ pc'[c] # "tcpDo"
          /\ hostname[c] \notin DOMAIN altSvcs
          /\ subRes'[c]["tcp"].res = Nil)
            => /\ pc'[c] = "done"
               /\ ret'[c] = subRes'[c]["tcp"]
               /\ altSvcs' = altSvcs]_vars

\* C8: under Alt-Svc, a call answered over TCP returns the response and the
\* error of tcpClient.Do, whatever altsvc.Parse returned.
C8_TcpErrorUnchanged ==
    \A c \in Calls :
        (pc[c] = "done" /\ Responded(c, "tcp")) => ret[c] = subRes[c]["tcp"]

\* C9: when Close has returned it has closed every handle of the map.
C9_CloseAttemptsAll ==
    cpc = "returned" => crem = {}

\* C10: when Close has returned the map holds none of the handles it closed,
\* and no call gets a closed handle from getClient.
C10_NoClosedHandleAfterClose ==
    /\ [](cpc = "returned" => \A h \in DOMAIN clients : clients[h] \notin closedHandles)
    /\ [][\A c \in Calls :
            (cl[c] = NoHandle /\ cl'[c] # NoHandle) => cl'[c] \notin closedHandles]_vars

\* C11: whenever the checks of lines 105-137 have refused a request that has
\* a body, the body has been closed exactly once.
C11_BodyReleasedOnRejection ==
    (vpc = "rejected" /\ req.Body # Nil) => bodyClosed = 1

\* C12: under either strategy, a call with OnlyCachedConn whose lookup finds
\* no handle stored for its host returns ErrNoCachedConn and no response from
\* that step, which leaves the map and the handles made as they were; a call
\* that returned ErrNoCachedConn made no round trip on either transport and
\* started no subroutine.
C12_NoCachedConn ==
    /\ [][\A c \in Calls :
            (/\ pc[c] = "gcLookup" /\ pc'[c] # "gcLookup"
             /\ onlyCached[c]
             /\ hostname[c] \notin DOMAIN clients)
               => /\ pc'[c] = "done"
                  /\ ret'[c] = subTrip(Nil, ErrNoCachedConn)
                  /\ cl'[c] = NoHandle
                  /\ clients' = clients
                  /\ nextHandle' = nextHandle
                  /\ fcalls' = fcalls]_vars
    /\ [](\A c \in Calls :
            (pc[c] = "done" /\ ret[c].err = ErrNoCachedConn)
               => /\ ret[c].res = Nil
                  /\ \A g \in Subs : subRes[c][g] = NoTrip /\ spc[c][g] = "none")

\* C12 witness: a call with OnlyCachedConn has returned ErrNoCachedConn while
\* the map holds no handle for its host but one for the other host.
C12_Witness ==
    \E c \in Calls :
        /\ pc[c] = "done"
        /\ onlyCached[c]
        /\ ret[c] = subTrip(Nil, ErrNoCachedConn)
        /\ hostname[c] \notin DOMAIN clients
        /\ clients # EmptyMap

\* C13: under Alt-Svc, when the batch last recorded for a host held a record
\* with Clear, nothing is stored for the host, neither what was stored before
\* nor a record of that batch: getAltServices reports no entry and returns no
\* service, and a call to that host reaching the switch goes over TCP.
C13_ClearRemovesEntry ==
    /\ [](\A h \in Hosts :
            lastClear[h] # "no"
               => /\ h \notin DOMAIN altSvcs
                  /\ getAltServices(altSvcs, h, now) = [ret |-> <<>>, ok |-> FALSE])
    /\ [][\A c \in Calls :
            (Dispatches(c) /\ lastClear[hostname[c]] # "no") => pc'[c] = "tcpDo"]_vars

\* C13 witness: a batch with a clear record was recorded for a host that had
\* an entry stored.
C13_Witness ==
    \E h \in Hosts : lastClear[h] = "entry" /\ h \notin DOMAIN altSvcs

\* C14: under Happy Eyeballs, a subroutine whose round trip has returned
\* ends: one that got a response and stands at once.Do or at its send on
\* resChan eventually returns, and after the caller has received a result no
\* subroutine stands at a send or waits for a running once.Do.
C14_SubroutinesTerminate ==
    /\ \A c \in Calls, g \in Subs :
          (spc[c][g] \in {"once", "send"}) ~> (spc[c][g] = "done")
    /\ [](\A c \in Calls, g \in Subs :
            pc[c] = "done"
               => /\ spc[c][g] # "send"
                  /\ (spc[c][g] = "once" => once[c] = "done"))

\* C14 witness: the QUIC subroutine delivered its response, and the TCP
\* subroutine, which got a response too, has returned from once.Do.
C14_Witness ==
    \E c \in Calls :
        /\ pc[c] = "done"
        /\ winner[c] = "quic"
        /\ Responded(c, "tcp")
        /\ spc[c]["tcp"] = "done"

\* C15: under Happy Eyeballs each subroutine passes its own clone of the
\* request to its transport, and there is no state in which one subroutine
\* is about to assign the variable req while the other is about to assign or
\* to read it.
C15_OwnClone ==
    \A c \in Calls, g \in Subs :
        /\ used[c][g] \in {Nil, Clone(g)}
        /\ ~(spc[c][g] = "clone" /\ spc[c][Other(g)] \in {"clone", "arg"})

\* C16: getAltServices returns for a host only records of a service that was
\* recorded for it, each persistent or not yet expired, and no zero-valued
\* altSvc.
C16_LookupOnlyValidRecords ==
    \A h \in Hosts :
        LET r == getAltServices(altSvcs, h, now).ret IN
        \A i \in 1..Len(r) :
            /\ r[i] # ZeroAltSvc
            /\ StillValid(r[i], now)
            /\ \E s \in Services : ~s.Clear /\ r[i] = altSvc(s, r[i].expiredAt)

\* C17: getAltServices never returns a record that is not persistent and was
\* recorded with max-age 0, whatever the clock reads, the reading at which it
\* was recorded included.
C17_MaxAgeZeroExpired ==
    \A h \in Hosts :
        LET r == getAltServices(altSvcs, h, now).ret IN
        \A i \in 1..Len(r) :
            (r[i] # ZeroAltSvc /\ r[i].Persist # 1) => r[i].MaxAge # 0

\* The records a sequence of altSvc holds.
Elems(q) == {q[i] : i \in 1..Len(q)}

\* C18: as long as a record with Persist = 1 is stored for a host, that is
\* until a later setAltServices replaces or clears the entry, getAltServices
\* returns it, whatever the clock reads.
C18_PersistentReturned ==
    \A h \in DOMAIN altSvcs :
        \A s \in Elems(altSvcs[h]) :
            s.Persist = 1 => s \in Elems(getAltServices(altSvcs, h, now).ret)

\* C18 witness: two seconds after a batch was recorded, its record with
\* max-age 1 is no longer returned and its persistent record is.
C18_Witness ==
    \E h \in DOMAIN altSvcs :
        LET r == Elems(getAltServices(altSvcs, h, now).ret) IN
        /\ now = 2
        /\ \E s \in Elems(altSvcs[h]) : s.Persist # 1 /\ s.expiredAt = 1 /\ s \notin r
        /\ \E s \in Elems(altSvcs[h]) : s.Persist = 1 /\ s \in r

\* The records setAltServices is to store for a batch recorded at time t.
RecordsOf(b, t) == [i \in 1..Len(b) |-> altSvc(b[i], ExpiredAt(b[i], t))]

\* C19: a setAltServices that leaves an entry for its host leaves there the
\* records of one batch without clear record and nothing else, whatever was
\* stored before and whatever other call records at the same time, and leaves
\* the entries of the other hosts as they were.
C19_RecordReplaces ==
    [][\A c \in Calls :
         (pc[c] = "setAlt" /\ pc'[c] = "done" /\ hostname[c] \in DOMAIN altSvcs')
            => /\ \E b \in Batches :
                    ~HasClear(b) /\ altSvcs'[hostname[c]] = RecordsOf(b, now)
               /\ \A x \in Hosts \ {hostname[c]} :
                    /\ x \in DOMAIN altSvcs' <=> x \in DOMAIN altSvcs
                    /\ x \in DOMAIN altSvcs => altSvcs'[x] = altSvcs[x]]_vars

\* A call waiting for a transport: cl.RoundTrip or tcpClient.Do under
\* Alt-Svc, or a subroutine of Happy Eyeballs in its round trip.
InRoundTrip(c) ==
    \/ pc[c] \in {"quicRT", "tcpDo"}
    \/ \E g \in Subs : spc[c][g] = "rt"

\* C20: under either strategy a call holds r.mutex only inside getClient; a
\* call waiting for a transport does not hold it, and while a call waits for
\* a transport and Close is not running, another call standing at getClient
\* can take the lock.
C20_NoLockDuringRoundTrip ==
    \A c \in Calls :
        /\ (mutex = c => pc[c] \in {"gcLookup", "gcCreate"})
        /\ (InRoundTrip(c) => mutex # c)
        /\ \A d \in Calls \ {c} :
              (InRoundTrip(c) /\ pc[d] = "getClient" /\ mutex # Closer)
                 => ENABLED GetClientLock(d)

\* C20 witness: a call waits for a transport while the other call, to the
\* other host, holds the lock inside getClient.
C20_Witness ==
    \E c \in Calls, d \in Calls :
        /\ InRoundTrip(c)
        /\ mutex = d
        /\ pc[d] = "gcCreate"
        /\ hostname[d] # hostname[c]
====
